---- MODULE Spec2Model ----
(***************************************************************************)
(* The routing session of P05: Interface.execute (src/P05/interface.py)    *)
(* over ApiService (src/P05/api_service.py) and the pydantic models        *)
(* (src/P05/models.py).                                                    *)
(*                                                                         *)
(* Modelling conventions                                                   *)
(*  - Python's None is the empty sequence <<>>, a value v is <<v>>.        *)
(*  - A coordinate is written in the polar frame of the session's origin:  *)
(*    azimuth (whole degrees, the initial compass bearing seen from the    *)
(*    origin) and km (geodesic distance from the origin).  Every geometry  *)
(*    call of the session has the origin as its first argument, so this    *)
(*    frame carries all the code reads; the trigonometry itself is not     *)
(*    evaluated.                                                           *)
(*  - One blocking external call (one HTTP attempt, one geocoder call) is  *)
(*    one step; the code that runs between two calls belongs to the step   *)
(*    of the call that precedes it.                                        *)
(***************************************************************************)
EXTENDS Integers, Sequences, FiniteSets, TLC

VARIABLES
    pc,                       \* position of execute()
    covered_stations,         \* Interface.covered_stations
    local_providers,          \* Interface.local_providers (set of country codes)
    geolocator,               \* Interface.geolocator is not None
    origin_name,              \* execute: origin_name
    destination_name,         \* execute: destination_name
    origin_obj,               \* execute: origin_obj
    destination_obj,          \* execute: destination_obj
    direct_connection,        \* execute: direct_connection
    connection_stations,      \* corridor search: connection_stations
    intermediate_connections, \* corridor search: intermediate_connections
    probe_idx,                \* corridor search: position in connection_stations
    connections_to_display,   \* execute: connections_to_display
    is_direct,                \* execute: is_direct
    display_idx,              \* execute: enumerate index of the display loop
    out,                      \* what execute has printed
    exc,                      \* the exception execute ended with, if any
    retries,                  \* urllib3 retries done in the running HTTP call
    calls,                    \* history: API calls issued, in order
    returns,                  \* history: how each finished session call ended
    geo_calls,                \* history: geocoder forward lookups, in order
    geo_location,             \* execute: geo_location
    attempts,                 \* history: answers received by the running API call
    last,                     \* history: how the last finished API call ended
    stations_file,            \* reachable_stations.json as __init__ found it
    geo_returns,              \* history: how each forward geocoding ended
    reverse_answer,           \* history: the reverse geocoder's last answer
    geom,                     \* the Geometry Engine's arguments and results
    dist,                     \* _calculate_distance: arguments and results
    gen,                      \* generate_reachable_list: its locals and probe log
    acct,                     \* P02: one account object and its call log
    game,                     \* P01: one MatchGame object and its draw log
    room                      \* P01: the classroom object graph

vars == <<pc, covered_stations, local_providers, geolocator, origin_name,
          destination_name, origin_obj, destination_obj, direct_connection,
          connection_stations, intermediate_connections, probe_idx,
          connections_to_display, is_direct, display_idx, out, exc, retries,
          calls, returns, geo_calls, geo_location, attempts, last,
          stations_file, geo_returns, reverse_answer, geom, dist, gen, acct,
          game, room>>

\* the variables of the other programs of the repository
program_vars == <<dist, gen, acct, game, room>>

----------------------------------------------------------------------------
(* Bounds and program constants *)

\* longest reachable-station cache explored
MaxStations == 3

\* API calls made in a row in the API Client's own specification
MaxCalls == 2

\* ApiService.__init__(retries=5): Retry(total=retries)
Retries == 5

\* get_intermediate_connections_by_bearing: deviation <= 20
CorridorThreshold == 20

\* execute: Location(id=-1, ...) for a geocoded destination
SentinelId == 0 - 1

----------------------------------------------------------------------------
(* Values *)

None == <<>>
Some(v) == <<v>>

\* the other programs of the repository are not running
ProgramsIdle ==
    /\ dist = None
    /\ gen = None
    /\ acct = None
    /\ game = None
    /\ room = None

Coord(az, km) == [azimuth |-> az, km |-> km]

\* models.Location: id, name, coordinate (score, distance, icon are not read)
Loc(id, name, c) == [id |-> id, name |-> name, coordinate |-> c]

\* Stations of the transit network, as the cache builder records them from
\* transit-API answers.
Catalogue ==
    { Loc(1, "S", Coord(10, 100)),
      Loc(2, "T", Coord(45, 80)),
      Loc(3, "U", Coord(20, 50)),
      Loc(4, "V", Coord(350, 120)) }

\* Coordinates the world may give the destination.
DestCoords == { Coord(0, 200), Coord(30, 100), Coord(0, 0) }

OriginNames == {"Zuerich HB", "Bern"}
DestNames == {"Lyon", "Hinterdorf"}

\* What the user may type at the two prompts: origin, destination
Prompts == { <<"Zuerich HB", "Lyon">>, <<"Bern", "Hinterdorf">> }

\* id the transit API gives a named station
StationId(name) ==
    CASE name = "Zuerich HB" -> 10
      [] name = "Bern" -> 11
      [] name = "Lyon" -> 20
      [] name = "Hinterdorf" -> 21
      [] OTHER -> 99

\* Sequences over S of length <= n without repetition
SeqsNoDup(S, n) ==
    { s \in UNION { [1..k -> S] : k \in 0..n } :
        \A i, j \in 1..Len(s) : i # j => s[i] # s[j] }

----------------------------------------------------------------------------
(* The reachable-station file: Interface.read_covered_stations *)

\* one JSON record of the file; the coordinate key may be missing
Record(id, name, c) == [id |-> id, name |-> name, coordinate |-> c]

\* The records a file may hold: the catalogue's stations as the cache
\* builder dumps them, a record whose id is -1, and a record without a
\* coordinate.
FileRecords ==
    { Record(c.id, c.name, Some(c.coordinate)) : c \in Catalogue }
        \cup { Record(SentinelId, "W", Some(Coord(5, 60))),
               Record(5, "N", None) }

\* What __init__ may find at reachable_stations.json: no file, a file that
\* is not JSON, a JSON value that is not a list, or a list of records.
StationFiles ==
    { [kind |-> k, records |-> <<>>] :
        k \in {"missing", "invalid_json", "not_list"} }
        \cup { [kind |-> "list", records |-> r] :
                 r \in SeqsNoDup(FileRecords, MaxStations) }

\* Location(**station): coordinate is a required field of models.Location,
\* so a record without one raises a ValidationError (None here)
ParseLocation(record) ==
    IF record.coordinate = None THEN None
    ELSE Some(Loc(record.id, record.name, record.coordinate[1]))

\* mutant of ReadCoveredStations: a record that does not parse is left out
\* and the others are kept
ReadCoveredStations_SkipUnparsed(file) ==
    IF file.kind # "list" THEN <<>>
    ELSE LET good == SelectSeq(file.records,
                               LAMBDA r : ParseLocation(r) # None)
         IN [i \in 1..Len(good) |-> ParseLocation(good[i])[1]]

\* Interface.read_covered_stations: the parsed list; [] when the file is
\* not found, is not JSON, is not a list, or when any record raises
ReadCoveredStations(file) ==
    IF file.kind # "list" THEN <<>>
    ELSE IF \E i \in 1..Len(file.records) :
                ParseLocation(file.records[i]) = None
    THEN <<>>
    ELSE [i \in 1..Len(file.records) |-> ParseLocation(file.records[i])[1]]

----------------------------------------------------------------------------
(* API Client: src/P05/api_service.py *)

\* What one HTTP attempt can end in: a 200 whose body holds a record, a 200
\* with an empty list, a 200 without the list key, a 200 whose body does not
\* parse (resp.json() or the pydantic model raises), a 4xx, a 5xx of the
\* status_forcelist, or a timeout.
Responses ==
    {"200_data", "200_empty", "200_missing", "200_unparsable",
     "4xx", "5xx", "timeout"}

\* urllib3's Retry retries a forcelisted status and a timed-out GET alike
IsTransient(resp) == resp \in {"5xx", "timeout"}

\* mutant of ShouldRetry: the budget is taken to be spent one retry early
ShouldRetry_OneShort(resp, done) == IsTransient(resp) /\ done < Retries - 1

\* Retry(total=retries): the attempt is repeated while the budget lasts
ShouldRetry(resp, done) == IsTransient(resp) /\ done < Retries

\* mutant of ApiResult: raise_for_status() is left out, and the error body
\* of a 4xx or 5xx, which holds no list, reads as an empty result
ApiResult_NoStatusCheck(resp, value) ==
    CASE resp = "200_data" -> [kind |-> "value", val |-> Some(value), error |-> ""]
      [] resp \in {"200_empty", "200_missing", "4xx", "5xx"} ->
            [kind |-> "absent", val |-> None, error |-> ""]
      [] resp = "timeout" ->
            [kind |-> "raised", val |-> None, error |-> "ConnectionError"]
      [] OTHER -> [kind |-> "raised", val |-> None, error |-> "ValueError"]

\* get_next_connection / get_location on the response that ends the call:
\* raise_for_status(), resp.json(), data.get(key), Model(**data[key][0])
ApiResult(resp, value) ==
    CASE resp = "200_data" -> [kind |-> "value", val |-> Some(value), error |-> ""]
      [] resp \in {"200_empty", "200_missing"} ->
            [kind |-> "absent", val |-> None, error |-> ""]
      [] resp = "4xx" -> [kind |-> "raised", val |-> None, error |-> "HTTPError"]
      [] resp = "5xx" -> [kind |-> "raised", val |-> None, error |-> "RetryError"]
      [] resp = "timeout" ->
            [kind |-> "raised", val |-> None, error |-> "ConnectionError"]
      [] OTHER -> [kind |-> "raised", val |-> None, error |-> "ValueError"]

\* history record of a finished call: the answers it received, in order,
\* and what it returned or raised
Finished(op, answers, r) ==
    [op |-> op, answers |-> answers, kind |-> r.kind, val |-> r.val,
     error |-> r.error]

NoCall == [op |-> "", answers |-> <<>>, kind |-> "", val |-> None, error |-> ""]

\* history record of an issued call
Call(op, phase, to) == [op |-> op, phase |-> phase, to |-> to]

----------------------------------------------------------------------------
(* Geometry Engine: src/P05/interface.py *)

\* Interface.bearing(origin, x): atan2(0, 0) = 0 when x lies on the origin
Bearing(origin, x) ==
    IF x.coordinate.km = 0 THEN 0 ELSE x.coordinate.azimuth

Abs(n) == IF n < 0 THEN 0 - n ELSE n
Min(a, b) == IF a < b THEN a ELSE b

\* mutant of AngularDeviation: the difference is not folded at 180 degrees
AngularDeviation_NoWrap(origin, destination, candidate) ==
    Abs(Bearing(origin, destination) - Bearing(origin, candidate))

\* Interface.angular_deviation
AngularDeviation(origin, destination, candidate) ==
    LET b_od == Bearing(origin, destination)
        b_oc == Bearing(origin, candidate)
    IN Min(Abs(b_od - b_oc), 360 - Abs(b_od - b_oc))

\* no geometry call recorded
NoGeometry == [b_od |-> 0, km |-> 0, d |-> 0, results |-> None]

\* Interface._calculate_distance(origin, x), x an optional Location
CalculateDistance(origin, x) ==
    IF origin = None \/ x = None THEN 0 ELSE x[1].coordinate.km

----------------------------------------------------------------------------
(* Session values: src/P05/interface.py, src/P05/models.py *)

\* From.platform of the API's answer for a connection to that station: a
\* string, which may be empty
Platform(name) == IF name \in {"Lyon", "S", "U"} THEN "7" ELSE ""

\* From.departure, Connection.duration, To.arrival (minutes) of the API's
\* answer for a connection to that station
Timetable(name) ==
    LET duration == IF name \in {"Lyon", "S", "W"} THEN 95 ELSE 140
    IN [departure |-> 600, duration |-> duration, arrival |-> 600 + duration]

\* models.Connection: from_.station, from_.departure, from_.platform,
\* to.station, to.arrival, duration
Conn(from_name, to_station) ==
    [from_ |-> from_name, to |-> to_station,
     platform |-> Platform(to_station.name),
     departure |-> Timetable(to_station.name).departure,
     arrival |-> Timetable(to_station.name).arrival,
     duration |-> Timetable(to_station.name).duration]

\* to.station of the API's answer to a probe for a cached station: the
\* transit network's own record of the station of that name
ApiStation(c) ==
    Loc(IF c.id = SentinelId THEN StationId(c.name) ELSE c.id, c.name,
        c.coordinate)

\* a printed line that is not an option block
Msg(kind, text) ==
    [kind |-> kind, text |-> text, index |-> 0, direct |-> FALSE, via |-> None,
     coverage |-> FALSE, percentage |-> 0, provider |-> ""]

\* mutant of SynthesizeLocation: the Location looks like a transit station
SynthesizeLocation_StationId(name, c) == Loc(StationId(name), name, c)

\* execute, line 209: the Location made from the geocoder's coordinates
SynthesizeLocation(name, c) == Loc(SentinelId, name, c)

\* mutant of OriginMissing: the check of the origin lookup is skipped
OriginMissing_Never(r) == FALSE

\* execute, line 190: if not origin_obj
OriginMissing(r) == r.kind = "absent"

\* mutant of DirectFound: the corridor search runs whatever the direct
\* query returned
DirectFound_Never(r) == FALSE

\* execute, line 234: if direct_connection
DirectFound(r) == r.kind = "value"

\* get_intermediate_connections_by_bearing, line 100: if deviation <= 20
InCorridor(origin, destination, candidate) ==
    AngularDeviation(origin, destination, candidate) <= CorridorThreshold

\* get_intermediate_connections_by_bearing, lines 93-101: connection_stations
CorridorCandidates(o, d, stations) ==
    IF o = None \/ d = None THEN <<>>
    ELSE SelectSeq(stations, LAMBDA c : InCorridor(o[1], d[1], c))

\* mutant of StationsAfterFilter: the stations outside the corridor are
\* removed from self.covered_stations itself
StationsAfterFilter_InPlace(stations, selected) == selected

\* get_intermediate_connections_by_bearing, lines 96-101: the loop reads
\* self.covered_stations and appends to a list of its own
StationsAfterFilter(stations, selected) == stations

\* mutant of AppendConnection: the newest connection is put first
AppendConnection_Prepend(list, conn) == << conn >> \o list

\* get_intermediate_connections_by_bearing, line 108
AppendConnection(list, conn) == Append(list, conn)

\* What the reverse geocoder may answer for a via-station: an address with
\* a country code, one without, no address, or a GeocoderTimedOut /
\* GeocoderServiceError ("failed")
ReverseOutcomes == {"DE", "XX", "no_country_code", "no_address", "failed"}

\* mutant of ReverseCaught: the except clauses are left out
ReverseCaught_NoExcept(rev) == FALSE

\* get_local_provider, lines 137-142: GeocoderTimedOut, GeocoderServiceError
\* and every other exception of the lookup are caught
ReverseCaught(rev) == TRUE

\* What __init__ may find at local_providers.json: no file, a file that is
\* not JSON, or the provider table
ProviderFiles == {"missing", "invalid_json", "table"}

\* Interface._load_local_providers: the country codes of the table; {} when
\* the file is not found or is not JSON
LoadLocalProviders(file) == IF file = "table" THEN {"DE"} ELSE {}

\* get_local_provider, lines 114-118, called for an intermediate option
\* only: the reverse geocoder is asked
ReverseAsked(direct) == ~direct /\ geolocator /\ local_providers # {}

\* Interface.get_local_provider: the provider entry, or None
GetLocalProvider(station, rev) ==
    IF ~geolocator THEN None
    ELSE IF station = None \/ local_providers = {} THEN None
    ELSE IF rev \in {"no_country_code", "no_address", "failed"} THEN None
    ELSE IF rev \in local_providers THEN Some(rev) ELSE None

\* mutant of PlatformText: the platform is printed as the API sent it
PlatformText_Raw(platform) == platform

\* _display_connection_option, line 163: conn.from_.platform or 'N/A'
PlatformText(platform) == IF platform = "" THEN "N/A" ELSE platform

\* mutant of Percentage: without a total distance the whole way counts as
\* covered
Percentage_FullWithoutTotal(covered, total) ==
    IF total > 0 THEN (covered * 100) \div total ELSE 100

\* _display_connection_option, line 158
Percentage(covered, total) == IF total > 0 THEN (covered * 100) \div total ELSE 0

\* mutant of CoverageLine: every intermediate option gets a coverage line
CoverageLine_Always(direct, total_distance) == ~direct

\* _display_connection_option, line 167: the coverage line is printed
CoverageLine(direct, total_distance) == ~direct /\ total_distance > 0

\* _display_connection_option: the block printed for one connection
OptionBlock(conn, option_index, o, d, total_distance, direct, rev) ==
    LET intermediate_station == conn.to
        covered_distance == CalculateDistance(o, Some(intermediate_station))
        provider == GetLocalProvider(Some(intermediate_station), rev)
    IN [kind |-> "option", text |-> "", index |-> option_index,
        direct |-> direct, via |-> Some(intermediate_station),
        travel |-> << conn.from_, intermediate_station.name >>,
        departure |-> conn.departure,
        platform |-> PlatformText(conn.platform),
        arrival |-> conn.arrival, duration |-> conn.duration,
        coverage |-> CoverageLine(direct, total_distance),
        percentage |-> Percentage(covered_distance, total_distance),
        provider |-> IF direct THEN ""
                     ELSE IF provider # None THEN "named" ELSE "lookup_failed"]

\* execute, lines 249-251: the total-distance line, printed when positive
TotalLine(o, d) ==
    IF CalculateDistance(o, d) > 0 THEN << Msg("info", "total_distance") >>
    ELSE <<>>

----------------------------------------------------------------------------
(* Interface.__init__ and execute: src/P05/interface.py *)

\* the part of the state execute() writes, as one record
St ==
    [pc |-> pc, origin_name |-> origin_name,
     destination_name |-> destination_name, origin_obj |-> origin_obj,
     destination_obj |-> destination_obj,
     direct_connection |-> direct_connection,
     connection_stations |-> connection_stations,
     intermediate_connections |-> intermediate_connections,
     probe_idx |-> probe_idx,
     connections_to_display |-> connections_to_display,
     is_direct |-> is_direct, display_idx |-> display_idx, out |-> out,
     exc |-> exc, retries |-> retries, calls |-> calls, returns |-> returns,
     geo_calls |-> geo_calls, geo_location |-> geo_location,
     geo_returns |-> geo_returns, reverse_answer |-> reverse_answer,
     covered_stations |-> covered_stations]

\* the step's assignments; the provider table and the geolocator are
\* written by __init__ only
Set(n) ==
    /\ pc' = n.pc
    /\ origin_name' = n.origin_name
    /\ destination_name' = n.destination_name
    /\ origin_obj' = n.origin_obj
    /\ destination_obj' = n.destination_obj
    /\ direct_connection' = n.direct_connection
    /\ connection_stations' = n.connection_stations
    /\ intermediate_connections' = n.intermediate_connections
    /\ probe_idx' = n.probe_idx
    /\ connections_to_display' = n.connections_to_display
    /\ is_direct' = n.is_direct
    /\ display_idx' = n.display_idx
    /\ out' = n.out
    /\ exc' = n.exc
    /\ retries' = n.retries
    /\ calls' = n.calls
    /\ returns' = n.returns
    /\ geo_calls' = n.geo_calls
    /\ geo_location' = n.geo_location
    /\ geo_returns' = n.geo_returns
    /\ reverse_answer' = n.reverse_answer
    /\ covered_stations' = n.covered_stations
    /\ UNCHANGED <<local_providers, geolocator, attempts,
                   last, stations_file, geom, program_vars>>

\* Interface.__init__: the files are read, the geolocator is built (or not)
Init ==
    /\ stations_file \in StationFiles
    /\ covered_stations = ReadCoveredStations(stations_file)
    /\ \E file \in ProviderFiles : local_providers = LoadLocalProviders(file)
    /\ geolocator \in BOOLEAN
    /\ pc = "start"
    /\ origin_name = ""
    /\ destination_name = ""
    /\ origin_obj = None
    /\ destination_obj = None
    /\ direct_connection = None
    /\ connection_stations = <<>>
    /\ intermediate_connections = <<>>
    /\ probe_idx = 0
    /\ connections_to_display = <<>>
    /\ is_direct = FALSE
    /\ display_idx = 0
    /\ out = <<>>
    /\ exc = None
    /\ retries = 0
    /\ calls = <<>>
    /\ returns = <<>>
    /\ geo_calls = <<>>
    /\ geo_location = None
    /\ attempts = <<>>
    /\ last = NoCall
    /\ geo_returns = <<>>
    /\ reverse_answer = ""
    /\ geom = NoGeometry
    /\ ProgramsIdle

\* positions at which execute() waits for the transit API
ApiPcs == {"origin", "destination", "direct", "probe"}

\* the running call ends with r: its retry counter goes with it
Return(n, r) ==
    [n EXCEPT !.retries = 0,
              !.returns = Append(n.returns,
                  [phase |-> n.calls[Len(n.calls)].phase,
                   to |-> n.calls[Len(n.calls)].to, kind |-> r.kind])]

\* an exception leaves execute(): nothing catches it
Raise(n, at, r) ==
    [n EXCEPT !.pc = "crashed", !.exc = Some([at |-> at, error |-> r.error])]

\* a new API call is issued
Issue(n, op, phase, to) ==
    [n EXCEPT !.calls = Append(n.calls, Call(op, phase, to)), !.retries = 0]

\* mutant of CacheUnusable: the check of the station list is skipped
CacheUnusable_Never(stations) == FALSE

\* execute, line 182: if not self.covered_stations
CacheUnusable(stations) == stations = <<>>

\* execute, lines 182-189: the cache check, the two prompts, and the origin
\* lookup is issued
Start ==
    /\ pc = "start"
    /\ IF CacheUnusable(covered_stations)
       THEN Set([St EXCEPT !.pc = "done",
                           !.out = Append(out, Msg("error", "no_station_data"))])
       ELSE \E p \in Prompts :
              Set(Issue([St EXCEPT !.pc = "origin", !.origin_name = p[1],
                                   !.destination_name = p[2]],
                        "get_location", "origin", p[1]))

\* HTTPAdapter(max_retries=retry): a transient answer within the budget is
\* retried inside the call
Retry ==
    /\ pc \in ApiPcs
    /\ \E resp \in Responses :
         /\ ShouldRetry(resp, retries)
         /\ Set([St EXCEPT !.retries = retries + 1])

\* execute, lines 227-229: the direct query is issued
BeginSearch(n) ==
    Issue([n EXCEPT !.pc = "direct",
                    !.out = Append(n.out, Msg("info", "searching"))],
          "get_next_connection", "direct", n.destination_name)

\* execute, lines 189-194: the origin lookup ends
OriginLookup ==
    /\ pc = "origin"
    /\ \E resp \in Responses :
         /\ ~ShouldRetry(resp, retries)
         /\ LET r == ApiResult(resp, Loc(StationId(origin_name), origin_name,
                                         Coord(0, 0)))
                n == Return(St, r)
            IN IF r.kind = "raised" THEN Set(Raise(n, "origin", r))
               ELSE IF OriginMissing(r)
               THEN Set([n EXCEPT !.pc = "done",
                           !.out = Append(out, Msg("error", "origin_not_found"))])
               ELSE Set(Issue([n EXCEPT !.pc = "destination",
                                        !.origin_obj = r.val],
                              "get_location", "destination", destination_name))

\* execute, lines 194-203 and 220-229: the destination lookup ends
DestinationLookup ==
    /\ pc = "destination"
    /\ \E resp \in Responses, c \in DestCoords :
         /\ ~ShouldRetry(resp, retries)
         /\ LET r == ApiResult(resp, Loc(StationId(destination_name),
                                         destination_name, c))
                n == Return(St, r)
                info == Append(out, Msg("info", "destination_not_in_api"))
            IN IF r.kind = "raised" THEN Set(Raise(n, "destination", r))
               ELSE IF r.val = None
               THEN IF ~geolocator
                    THEN Set([n EXCEPT !.pc = "done",
                                !.out = Append(info,
                                     Msg("error", "geolocator_not_initialized"))])
                    ELSE Set([n EXCEPT !.pc = "geocode", !.out = info,
                                !.geo_calls = Append(geo_calls, destination_name)])
               ELSE Set(BeginSearch([n EXCEPT !.destination_obj = r.val]))

\* What the geocoder's forward lookup may end in: a location, None, a
\* GeocoderTimedOut / GeocoderServiceError, any other exception
GeoOutcomes == {"found", "none", "timeout", "error"}

\* mutant of GeocodeHandled: the except clauses are left out
GeocodeHandled_NoExcept(g) == g = "none"

\* execute, lines 210-218: the else branch and the two except clauses end
\* the session with a message
GeocodeHandled(g) == g \in {"none", "timeout", "error"}

\* execute, lines 211, 214, 217: the message printed for a failed geocoding
GeocodeMessage(g) ==
    CASE g = "none" -> "geocode_not_found"
      [] g = "timeout" -> "geocoding_failed"
      [] OTHER -> "geocoding_error"

\* execute, lines 201-229: the forward geocoding of the destination ends
Geocode ==
    /\ pc = "geocode"
    /\ \E g \in GeoOutcomes, c \in DestCoords :
         LET n == [St EXCEPT !.geo_returns = Append(geo_returns, g)]
         IN IF g = "found"
            THEN Set(BeginSearch(
                   [n EXCEPT !.geo_location = Some(c),
                             !.out = Append(out, Msg("info", "geocoded")),
                             !.destination_obj =
                                 Some(SynthesizeLocation(destination_name, c))]))
            ELSE IF GeocodeHandled(g)
            THEN Set([n EXCEPT !.pc = "done",
                        !.out = Append(out, Msg("error", GeocodeMessage(g)))])
            ELSE Set(Raise(n, "geocode", [error |-> "GeocoderError"]))

\* execute, lines 243-251: the corridor search has returned `found`
AfterCorridor(n, found) ==
    IF found = <<>>
    THEN [n EXCEPT !.pc = "done", !.connections_to_display = found,
            !.out = Append(n.out, Msg("notfound", "no_suitable_connection"))]
    ELSE [n EXCEPT !.pc = "present", !.connections_to_display = found,
            !.display_idx = 1,
            !.out = Append(n.out, Msg("info", "possible_intermediate"))
                    \o TotalLine(n.origin_obj, n.destination_obj)]

\* execute, lines 229-251, and get_intermediate_connections_by_bearing,
\* lines 93-106: the direct query ends; on absent the corridor is filtered
\* and the first probe is issued
DirectQuery ==
    /\ pc = "direct"
    /\ \E resp \in Responses :
         /\ ~ShouldRetry(resp, retries)
         /\ LET conn == Conn(origin_obj[1].name,
                             Loc(StationId(destination_name), destination_name,
                                 destination_obj[1].coordinate))
                r == ApiResult(resp, conn)
                n == Return(St, r)
                cands == CorridorCandidates(origin_obj, destination_obj,
                                            covered_stations)
                m == [n EXCEPT !.connection_stations = cands,
                               !.covered_stations =
                                   StationsAfterFilter(covered_stations, cands),
                               !.direct_connection = r.val,
                               !.out = Append(out, Msg("info", "no_direct"))]
            IN IF r.kind = "raised" THEN Set(Raise(n, "direct", r))
               ELSE IF DirectFound(r)
               THEN Set([n EXCEPT !.pc = "present", !.direct_connection = r.val,
                           !.connections_to_display = << conn >>,
                           !.is_direct = TRUE, !.display_idx = 1,
                           !.out = Append(out, Msg("info", "direct_found"))
                                   \o TotalLine(origin_obj, destination_obj)])
               ELSE IF cands = <<>> THEN Set(AfterCorridor(m, <<>>))
               ELSE Set(Issue([m EXCEPT !.pc = "probe", !.probe_idx = 1],
                              "get_next_connection", "probe", cands[1].name))

\* get_intermediate_connections_by_bearing, lines 104-110, and execute,
\* lines 243-251: one probe ends; the next is issued, or the search returns
Probe ==
    /\ pc = "probe"
    /\ \E resp \in Responses :
         /\ ~ShouldRetry(resp, retries)
         /\ LET station == connection_stations[probe_idx]
                conn == Conn(origin_obj[1].name, ApiStation(station))
                r == ApiResult(resp, conn)
                found == IF r.kind = "value"
                         THEN AppendConnection(intermediate_connections, conn)
                         ELSE intermediate_connections
                n == [Return(St, r) EXCEPT !.intermediate_connections = found]
            IN IF r.kind = "raised"
               THEN Set(Raise([n EXCEPT !.intermediate_connections =
                                            intermediate_connections],
                              "probe", r))
               ELSE IF probe_idx < Len(connection_stations)
               THEN Set(Issue([n EXCEPT !.probe_idx = probe_idx + 1],
                              "get_next_connection", "probe",
                              connection_stations[probe_idx + 1].name))
               ELSE Set(AfterCorridor(n, found))

\* execute, lines 253-261: one option block is printed (the reverse
\* geocoder is asked for an intermediate option)
Present ==
    /\ pc = "present"
    /\ \E rev \in (IF ReverseAsked(is_direct) THEN ReverseOutcomes
                   ELSE {reverse_answer}) :
         LET conn == connections_to_display[display_idx]
             block == OptionBlock(conn, display_idx, origin_obj, destination_obj,
                         CalculateDistance(origin_obj, destination_obj),
                         is_direct, rev)
         IN IF ReverseAsked(is_direct) /\ rev = "failed" /\ ~ReverseCaught(rev)
            THEN Set(Raise([St EXCEPT !.reverse_answer = rev], "present",
                           [error |-> "GeocoderServiceError"]))
            ELSE Set([St EXCEPT !.out = Append(out, block),
                        !.reverse_answer = rev,
                        !.display_idx = display_idx + 1,
                        !.pc = IF display_idx < Len(connections_to_display)
                               THEN "present" ELSE "done"])

Next ==
    \/ Start
    \/ Retry
    \/ OriginLookup
    \/ DestinationLookup
    \/ Geocode
    \/ DirectQuery
    \/ Probe
    \/ Present

Spec == Init /\ [][Next]_vars

\* execute has returned, or has ended by an exception
Terminal == pc \in {"done", "crashed"}

----------------------------------------------------------------------------
(* The API Client on its own: ApiService.get_next_connection and           *)
(* ApiService.get_location called in a row, each against a server that     *)
(* answers every attempt as it likes.                                      *)

ApiOps == {"get_location", "get_next_connection"}

\* what the server's record parses to
ApiValue(op, name) ==
    IF op = "get_location" THEN Loc(StationId(name), name, Coord(0, 200))
    ELSE Conn("Zuerich HB", Loc(StationId(name), name, Coord(0, 200)))

session_vars ==
    <<covered_stations, local_providers, geolocator, origin_name,
      destination_name, origin_obj, destination_obj, direct_connection,
      connection_stations, intermediate_connections, probe_idx,
      connections_to_display, is_direct, display_idx, out, exc, returns,
      geo_calls,
      geo_location, stations_file, geo_returns, reverse_answer, geom,
      program_vars>>

ApiInit ==
    /\ stations_file = [kind |-> "missing", records |-> <<>>]
    /\ covered_stations = <<>>
    /\ local_providers = {}
    /\ geolocator = FALSE
    /\ pc = "api_idle"
    /\ origin_name = ""
    /\ destination_name = ""
    /\ origin_obj = None
    /\ destination_obj = None
    /\ direct_connection = None
    /\ connection_stations = <<>>
    /\ intermediate_connections = <<>>
    /\ probe_idx = 0
    /\ connections_to_display = <<>>
    /\ is_direct = FALSE
    /\ display_idx = 0
    /\ out = <<>>
    /\ exc = None
    /\ retries = 0
    /\ calls = <<>>
    /\ returns = <<>>
    /\ geo_calls = <<>>
    /\ geo_location = None
    /\ attempts = <<>>
    /\ last = NoCall
    /\ geo_returns = <<>>
    /\ reverse_answer = ""
    /\ geom = NoGeometry
    /\ ProgramsIdle

\* session.get(...): the call is issued with a fresh retry budget
ApiIssue ==
    /\ pc = "api_idle"
    /\ Len(calls) < MaxCalls
    /\ \E op \in ApiOps, name \in DestNames :
         calls' = Append(calls, Call(op, "api", name))
    /\ pc' = "api_call"
    /\ retries' = 0
    /\ attempts' = <<>>
    /\ last' = NoCall
    /\ UNCHANGED session_vars

\* HTTPAdapter(max_retries=retry): a transient answer within the budget
ApiRetry ==
    /\ pc = "api_call"
    /\ \E resp \in Responses :
         /\ ShouldRetry(resp, retries)
         /\ attempts' = Append(attempts, resp)
    /\ retries' = retries + 1
    /\ UNCHANGED <<session_vars, pc, calls, last>>

\* the answer that ends the call: the call returns or raises
ApiFinish ==
    /\ pc = "api_call"
    /\ \E resp \in Responses :
         /\ ~ShouldRetry(resp, retries)
         /\ LET c == calls[Len(calls)]
            IN last' = Finished(c.op, Append(attempts, resp),
                                ApiResult(resp, ApiValue(c.op, c.to)))
    /\ pc' = "api_idle"
    /\ retries' = 0
    /\ attempts' = <<>>
    /\ UNCHANGED <<session_vars, calls>>

ApiNext ==
    \/ ApiIssue
    \/ ApiRetry
    \/ ApiFinish

SpecApi == ApiInit /\ [][ApiNext]_vars

----------------------------------------------------------------------------
(* The Geometry Engine on its own: Interface.angular_deviation called for  *)
(* a destination at every whole bearing, at the origin's place or away     *)
(* from it, for the destination itself and for two candidates d degrees    *)
(* clockwise and counter-clockwise of it.                                  *)

\* the whole bearings of [0, 360)
Bearings == 0..359

\* the offsets of a candidate from the direct bearing, to either side
Offsets == 0..180

\* distance of the destination from the origin: at the origin, or away
GeoDistances == {0, 100}

GeoInit ==
    /\ geom \in { [b_od |-> b, km |-> k, d |-> d, results |-> None] :
                    b \in Bearings, k \in GeoDistances, d \in Offsets }
    /\ pc = "geo_idle"
    /\ stations_file = [kind |-> "missing", records |-> <<>>]
    /\ covered_stations = <<>>
    /\ local_providers = {}
    /\ geolocator = FALSE
    /\ origin_name = ""
    /\ destination_name = ""
    /\ origin_obj = None
    /\ destination_obj = None
    /\ direct_connection = None
    /\ connection_stations = <<>>
    /\ intermediate_connections = <<>>
    /\ probe_idx = 0
    /\ connections_to_display = <<>>
    /\ is_direct = FALSE
    /\ display_idx = 0
    /\ out = <<>>
    /\ exc = None
    /\ retries = 0
    /\ calls = <<>>
    /\ returns = <<>>
    /\ geo_calls = <<>>
    /\ geo_location = None
    /\ attempts = <<>>
    /\ last = NoCall
    /\ geo_returns = <<>>
    /\ reverse_answer = ""
    /\ ProgramsIdle

\* angular_deviation(origin, destination, x) for x the destination, the
\* clockwise candidate and the counter-clockwise candidate
Deviations ==
    /\ pc = "geo_idle"
    /\ LET origin == Loc(StationId("Zuerich HB"), "Zuerich HB", Coord(0, 0))
           destination == Loc(StationId("Lyon"), "Lyon",
                              Coord(geom.b_od, geom.km))
           b == Bearing(origin, destination)
           cw == Loc(1, "S", Coord((b + geom.d) % 360, 100))
           ccw == Loc(2, "T", Coord((b - geom.d) % 360, 100))
       IN geom' = [geom EXCEPT !.results =
                     Some([b_od |-> b,
                           b_cw |-> Bearing(origin, cw),
                           b_ccw |-> Bearing(origin, ccw),
                           self |-> AngularDeviation(origin, destination,
                                                     destination),
                           cw |-> AngularDeviation(origin, destination, cw),
                           ccw |-> AngularDeviation(origin, destination, ccw)])]
    /\ pc' = "geo_done"
    /\ UNCHANGED <<covered_stations, local_providers, geolocator, origin_name,
                   destination_name, origin_obj, destination_obj,
                   direct_connection, connection_stations,
                   intermediate_connections, probe_idx, connections_to_display,
                   is_direct, display_idx, out, exc, retries, calls, returns,
                   geo_calls, geo_location, attempts, last, stations_file,
                   geo_returns, reverse_answer, program_vars>>

GeoNext == Deviations

SpecGeo == GeoInit /\ [][GeoNext]_vars

----------------------------------------------------------------------------
(* Interface._calculate_distance on its own, called for every pair of      *)
(* optional Locations over a grid of coordinates.                          *)

\* largest latitude and longitude index of the grid
MaxGrid == 2

\* the coordinates a Location may carry: (latitude, longitude)
GridPoints == (0..MaxGrid) \X (0..MaxGrid)

\* the arguments of _calculate_distance: None, a Location without a
\* coordinate, a Location at a grid point
OptionalLocations ==
    { None } \cup { Some(Loc(1, "A", None)) }
        \cup { Some(Loc(1, "A", Some(p))) : p \in GridPoints }

\* geopy.distance.distance(coords1, coords2).km, library code: a metric on
\* the grid stands for the geodesic distance (0 for equal points, the same
\* in both directions)
GeodesicKm(coords1, coords2) ==
    Abs(coords1[1] - coords2[1]) + Abs(coords1[2] - coords2[2])

\* mutant of DistanceKm: coords1 is a fixed home point, not loc1's
DistanceKm_FromHome(loc1, loc2) ==
    IF loc1 = None \/ loc2 = None THEN 0
    ELSE IF loc1[1].coordinate = None \/ loc2[1].coordinate = None THEN 0
    ELSE GeodesicKm(<<MaxGrid, 0>>, loc2[1].coordinate[1])

\* Interface._calculate_distance(loc1, loc2) over (latitude, longitude)
DistanceKm(loc1, loc2) ==
    IF loc1 = None \/ loc2 = None THEN 0
    ELSE IF loc1[1].coordinate = None \/ loc2[1].coordinate = None THEN 0
    ELSE GeodesicKm(loc1[1].coordinate[1], loc2[1].coordinate[1])

\* no session, API call or geometry call is running
SessionIdle ==
    /\ stations_file = [kind |-> "missing", records |-> <<>>]
    /\ covered_stations = <<>>
    /\ local_providers = {}
    /\ geolocator = FALSE
    /\ origin_name = ""
    /\ destination_name = ""
    /\ origin_obj = None
    /\ destination_obj = None
    /\ direct_connection = None
    /\ connection_stations = <<>>
    /\ intermediate_connections = <<>>
    /\ probe_idx = 0
    /\ connections_to_display = <<>>
    /\ is_direct = FALSE
    /\ display_idx = 0
    /\ out = <<>>
    /\ exc = None
    /\ retries = 0
    /\ calls = <<>>
    /\ returns = <<>>
    /\ geo_calls = <<>>
    /\ geo_location = None
    /\ attempts = <<>>
    /\ last = NoCall
    /\ geo_returns = <<>>
    /\ reverse_answer = ""
    /\ geom = NoGeometry

\* the variables of the session, the API Client and the Geometry Engine
p05_vars ==
    <<covered_stations, local_providers, geolocator, origin_name,
      destination_name, origin_obj, destination_obj, direct_connection,
      connection_stations, intermediate_connections, probe_idx,
      connections_to_display, is_direct, display_idx, out, exc, retries,
      calls, returns, geo_calls, geo_location, attempts, last, stations_file,
      geo_returns, reverse_answer, geom>>

DistInit ==
    /\ dist \in { [a |-> a, b |-> b, results |-> None] :
                    a \in OptionalLocations, b \in OptionalLocations }
    /\ pc = "dist_idle"
    /\ SessionIdle
    /\ gen = None /\ acct = None /\ game = None /\ room = None

\* _calculate_distance(a, b), _calculate_distance(b, a) and
\* _calculate_distance(a, a)
Distances ==
    /\ pc = "dist_idle"
    /\ dist' = [dist EXCEPT !.results =
                   Some([ab |-> DistanceKm(dist.a, dist.b),
                         ba |-> DistanceKm(dist.b, dist.a),
                         aa |-> DistanceKm(dist.a, dist.a)])]
    /\ pc' = "dist_done"
    /\ UNCHANGED <<p05_vars, gen, acct, game, room>>

DistNext == Distances

SpecDist == DistInit /\ [][DistNext]_vars

----------------------------------------------------------------------------
(* The offline cache builder: generate_reachable_list                      *)
(* (src/P05/generate_reachable_stations.py), one probe per step.           *)

\* longest list of destinations explored
MaxDestinations == 3

\* the names a destination list may hold; a name may occur more than once
Destinations ==
    UNION { [1..k -> { c.name : c \in Catalogue }] : k \in 0..MaxDestinations }

\* the transit network's station of that name
StationOf(name) == CHOOSE c \in Catalogue : c.name = name

\* connection.to.station.model_dump(include={"id", "name", "coordinate"})
StationData(station) == Record(station.id, station.name, Some(station.coordinate))

\* mutant of ProbeCaught: only network errors are caught
ProbeCaught_NetworkOnly(r) == r.error # "ValueError"

\* generate_reachable_list, lines 54-57: except RequestException, except
\* Exception
ProbeCaught(r) == TRUE

GenInit ==
    /\ gen \in { [origin |-> "Zuerich HB", destinations |-> d, i |-> 1,
                   reachable_stations |-> <<>>, probes |-> <<>>,
                   outcomes |-> <<>>, reported |-> <<>>] :
                   d \in Destinations }
    /\ pc = "gen_loop"
    /\ SessionIdle
    /\ dist = None /\ acct = None /\ game = None /\ room = None

\* generate_reachable_list, lines 44-59: one pass of the loop, the probe
\* answered (after the adapter's retries) with resp
GenProbe ==
    /\ pc = "gen_loop"
    /\ gen.i <= Len(gen.destinations)
    /\ \E resp \in Responses :
         LET dest == gen.destinations[gen.i]
             r == ApiResult(resp, Conn(gen.origin, StationOf(dest)))
             probed == [gen EXCEPT !.probes = Append(gen.probes, dest),
                                   !.outcomes = Append(gen.outcomes, r.kind)]
         IN IF r.kind = "raised" /\ ~ProbeCaught(r)
            THEN gen' = probed /\ pc' = "gen_crashed"
            ELSE /\ gen' = [probed EXCEPT
                        !.i = gen.i + 1,
                        !.reachable_stations =
                            IF r.kind = "value"
                            THEN Append(gen.reachable_stations,
                                        StationData(r.val[1].to))
                            ELSE gen.reachable_stations,
                        !.reported =
                            IF r.kind = "raised"
                            THEN Append(gen.reported,
                                        [dest |-> dest, error |-> r.error])
                            ELSE gen.reported]
                 /\ pc' = "gen_loop"
    /\ UNCHANGED <<p05_vars, dist, acct, game, room>>

\* generate_reachable_list, line 62: return reachable_stations
GenReturn ==
    /\ pc = "gen_loop"
    /\ gen.i > Len(gen.destinations)
    /\ pc' = "gen_done"
    /\ UNCHANGED <<p05_vars, program_vars>>

GenNext ==
    \/ GenProbe
    \/ GenReturn

SpecGen == GenInit /\ [][GenNext]_vars

----------------------------------------------------------------------------
(* P02: one BankAccount, SavingAccount or YouthAccount object               *)
(* (src/P02/bank_account.py, saving_account.py, youth_account.py) under    *)
(* any sequence of method calls.  Money is counted in hundredths (Decimal  *)
(* values with two places), interest rates in thousandths, time in months  *)
(* since the account was made.                                             *)

\* steps (method calls and moves of the clock) explored in one behaviour
MaxSteps == 5

\* Decimal("100"): hundredths in one unit of currency
Hundredths == 100

\* BankAccount.__init__: max_balance = Decimal("100000")
MaxBalance == 100000 * Hundredths

\* SavingAccount.__init__: min_balance = Decimal("-100000")
SavingMinBalance == 0 - 100000 * Hundredths

\* YouthAccount.__init__: monthly_withdraw_limit = Decimal("2000")
MonthlyWithdrawLimit == 2000 * Hundredths

\* SavingAccount.__init__ and YouthAccount.__init__: interest_rate, in
\* thousandths (Decimal("0.001"), Decimal("0.02"))
InitialRate(kind) ==
    CASE kind = "saving" -> 1
      [] kind = "youth" -> 20
      [] OTHER -> 0

\* the amounts a caller may pass to deposit and withdraw
Amounts == { 0, 1500 * Hundredths, 100000 * Hundredths }

\* the rates a caller may pass to set_interest_rate, in thousandths
Rates == { 0 - 1, 0, 20 }

\* how far the clock may move between two calls: a month, a year
ClockSteps == { 1, 12 }

\* datetime.now().month at that time
MonthOf(now) == (now % 12) + 1

\* the record of the last call: method, argument, the ValueError it raised
\* ("" when it returned), and the balance before it
LastCall(op, amount, error, before) ==
    [op |-> op, amount |-> amount, error |-> error, before |-> before]

\* BankAccount.__init__, SavingAccount.__init__, YouthAccount.__init__
NewAccount(kind) ==
    [kind |-> kind, opened |-> TRUE, balance |-> 0,
     min_balance |-> IF kind = "saving" THEN SavingMinBalance ELSE 0,
     max_balance |-> MaxBalance,
     interest_rate |-> InitialRate(kind),
     monthly_withdraw_limit |-> IF kind = "youth" THEN MonthlyWithdrawLimit ELSE 0,
     withdraw_this_month |-> 0,
     last_withdraw_month |-> MonthOf(0),
     now |-> 0, month_sum |-> 0, steps |-> 0, reopened |-> FALSE,
     last |-> LastCall("", 0, "", 0)]

\* mutant of ValidateTransaction: the check of opened is left out
ValidateTransaction_IgnoresClosed(a, amount) ==
    IF amount <= 0 THEN "not_positive" ELSE ""

\* BankAccount.__validate_transaction: the ValueError raised, "" if none
ValidateTransaction(a, amount) ==
    IF ~a.opened THEN "closed"
    ELSE IF amount <= 0 THEN "not_positive"
    ELSE ""

\* BankAccount.deposit
Deposit(a, amount) ==
    LET error == ValidateTransaction(a, amount)
    IN IF error # ""
       THEN [a EXCEPT !.last = LastCall("deposit", amount, error, a.balance)]
       ELSE IF a.balance + amount <= a.max_balance
       THEN [a EXCEPT !.balance = a.balance + amount,
                      !.last = LastCall("deposit", amount, "", a.balance)]
       ELSE [a EXCEPT !.last = LastCall("deposit", amount, "max_balance",
                                        a.balance)]

\* BankAccount.withdraw
BankWithdraw(a, amount) ==
    LET error == ValidateTransaction(a, amount)
    IN IF error # ""
       THEN [a EXCEPT !.last = LastCall("withdraw", amount, error, a.balance)]
       ELSE IF a.balance - amount >= a.min_balance
       THEN [a EXCEPT !.balance = a.balance - amount,
                      !.last = LastCall("withdraw", amount, "", a.balance)]
       ELSE [a EXCEPT !.last = LastCall("withdraw", amount, "min_balance",
                                        a.balance)]

\* SavingAccount.withdraw, lines 77-79: abs(self.balance) * Decimal("0.02")
Charge(balance) == (Abs(balance) * 2) \div 100

\* the charge on that balance is a whole number of hundredths
ChargeExact(balance) == (Abs(balance) * 2) % 100 = 0

\* SavingAccount.withdraw
SavingWithdraw(a, amount) ==
    LET error == ValidateTransaction(a, amount)
        drawn == a.balance - amount
    IN IF error # ""
       THEN [a EXCEPT !.last = LastCall("withdraw", amount, error, a.balance)]
       ELSE IF drawn >= a.min_balance
       THEN [a EXCEPT !.balance = IF drawn < 0 THEN drawn - Charge(drawn)
                                  ELSE drawn,
                      !.last = LastCall("withdraw", amount, "", a.balance)]
       ELSE [a EXCEPT !.last = LastCall("withdraw", amount, "min_balance",
                                        a.balance)]

\* YouthAccount.withdraw, lines 95-98: the month check
MonthReset(a) ==
    IF MonthOf(a.now) # a.last_withdraw_month
    THEN [a EXCEPT !.withdraw_this_month = 0,
                   !.last_withdraw_month = MonthOf(a.now)]
    ELSE a

\* YouthAccount.withdraw
YouthWithdraw(a, amount) ==
    LET error == ValidateTransaction(a, amount)
        m == MonthReset(a)
    IN IF error # ""
       THEN [a EXCEPT !.last = LastCall("withdraw", amount, error, a.balance)]
       ELSE IF m.withdraw_this_month + amount > m.monthly_withdraw_limit
       THEN [m EXCEPT !.last = LastCall("withdraw", amount, "limit", a.balance)]
       ELSE IF m.balance - amount >= m.min_balance
       THEN [m EXCEPT !.balance = m.balance - amount,
                      !.withdraw_this_month = m.withdraw_this_month + amount,
                      !.month_sum = m.month_sum + amount,
                      !.last = LastCall("withdraw", amount, "", a.balance)]
       ELSE [m EXCEPT !.last = LastCall("withdraw", amount, "min_balance",
                                        a.balance)]

\* Decimal.quantize(Decimal("0.01")) of n / d: to the nearest hundredth,
\* halves to the even one (ROUND_HALF_EVEN, the default context)
RoundHalfEven(n, d) ==
    LET q == Abs(n) \div d
        r == Abs(n) % d
        up == 2 * r > d \/ (2 * r = d /\ q % 2 = 1)
        m == IF up THEN q + 1 ELSE q
    IN IF n < 0 THEN 0 - m ELSE m

\* SavingAccount.apply_monthly_interest, YouthAccount.apply_monthly_interest
ApplyMonthlyInterest(a) ==
    IF a.opened
    THEN [a EXCEPT !.balance = a.balance
                       + RoundHalfEven(a.balance * a.interest_rate, 1000),
                   !.last = LastCall("apply_monthly_interest", 0, "", a.balance)]
    ELSE [a EXCEPT !.last = LastCall("apply_monthly_interest", 0, "", a.balance)]

\* SavingAccount.set_interest_rate, YouthAccount.set_interest_rate
SetInterestRate(a, rate) ==
    IF rate < 0
    THEN [a EXCEPT !.last = LastCall("set_interest_rate", rate, "negative",
                                     a.balance)]
    ELSE [a EXCEPT !.interest_rate = rate,
                   !.last = LastCall("set_interest_rate", rate, "", a.balance)]

\* BankAccount.close
Close(a) ==
    [a EXCEPT !.opened = FALSE, !.last = LastCall("close", 0, "", a.balance)]

\* BankAccount.open
Open(a) ==
    [a EXCEPT !.opened = TRUE, !.reopened = a.reopened \/ ~a.opened,
              !.last = LastCall("open", 0, "", a.balance)]

BankInit ==
    /\ acct \in { NewAccount(kind) : kind \in {"bank", "saving", "youth"} }
    /\ pc = "bank"
    /\ SessionIdle
    /\ dist = None /\ gen = None /\ game = None /\ room = None

\* one more step of the behaviour
Step(a) == [a EXCEPT !.steps = acct.steps + 1]

\* a step may be taken; the other variables stay as they are
BankFrame ==
    /\ acct.steps < MaxSteps
    /\ UNCHANGED <<pc, p05_vars, dist, gen, game, room>>

CallDeposit ==
    /\ pc = "bank"
    /\ \E amount \in Amounts : acct' = Step(Deposit(acct, amount))
    /\ BankFrame

\* withdraw of the object's class; a SavingAccount is only drawn below zero
\* to balances whose charge is a whole number of hundredths
CallWithdraw ==
    /\ pc = "bank"
    /\ \E amount \in Amounts :
         CASE acct.kind = "saving" ->
                /\ acct.balance - amount < 0 => ChargeExact(acct.balance - amount)
                /\ acct' = Step(SavingWithdraw(acct, amount))
           [] acct.kind = "youth" -> acct' = Step(YouthWithdraw(acct, amount))
           [] OTHER -> acct' = Step(BankWithdraw(acct, amount))
    /\ BankFrame

CallApplyMonthlyInterest ==
    /\ pc = "bank"
    /\ acct.kind \in {"saving", "youth"}
    /\ acct' = Step(ApplyMonthlyInterest(acct))
    /\ BankFrame

CallSetInterestRate ==
    /\ pc = "bank"
    /\ acct.kind \in {"saving", "youth"}
    /\ \E rate \in Rates : acct' = Step(SetInterestRate(acct, rate))
    /\ BankFrame

CallClose ==
    /\ pc = "bank"
    /\ acct' = Step(Close(acct))
    /\ BankFrame

CallOpen ==
    /\ pc = "bank"
    /\ acct' = Step(Open(acct))
    /\ BankFrame

\* time passes between two calls; a new calendar month starts
Tick ==
    /\ pc = "bank"
    /\ acct.kind = "youth"
    /\ \E step \in ClockSteps :
         acct' = Step([acct EXCEPT !.now = acct.now + step, !.month_sum = 0,
                                   !.last = LastCall("", 0, "", acct.balance)])
    /\ BankFrame

BankNext ==
    \/ CallDeposit
    \/ CallWithdraw
    \/ CallApplyMonthlyInterest
    \/ CallSetInterestRate
    \/ CallClose
    \/ CallOpen
    \/ Tick

SpecBank == BankInit /\ [][BankNext]_vars

(***************************************************************************)
(* P01/match_game.py: MatchGame                                            *)
(***************************************************************************)

\* random.randint(10, 20): the size of the stack at the start
MinStack == 10
MaxStack == 20

\* what the user types at the prompt
Texts == {"abc", "0", "1", "2", "3", "4"}

\* int(text): the number, or None where int() raises ValueError
ParseInt(text) ==
    CASE text = "0" -> Some(0)
      [] text = "1" -> Some(1)
      [] text = "2" -> Some(2)
      [] text = "3" -> Some(3)
      [] text = "4" -> Some(4)
      [] OTHER -> None

Other(turn) == IF turn = "user" THEN "computer" ELSE "user"

NoDraw == [drawer |-> "", amount |-> 0, before |-> 0]

\* MatchGame.__init__
NewGame(stack, user_first, strategy) ==
    [stack |-> stack, user_first |-> user_first, strategy |-> strategy,
     turn |-> IF user_first THEN "user" ELSE "computer",
     last |-> NoDraw, prev_drawer |-> "", message |-> "", loser |-> None,
     ahead |-> FALSE]

\* mutant of UserAccepts: the input is not compared with the stack
UserAccepts_AnyStack(n, stack) == 1 <= n /\ n <= 3

\* user_draw, line 32
UserAccepts(n, stack) == 1 <= n /\ n <= 3 /\ n <= stack

\* mutant of SmartInput: one match whatever the stack
SmartInput_One(stack) == Min(1, stack)

\* computer_draw, lines 47-53
SmartInput(stack) ==
    LET remainder == stack % 4
    IN IF remainder = 0 THEN Min(3, stack)
       ELSE IF remainder = 3 THEN Min(2, stack)
       ELSE Min(1, stack)

\* computer_draw, lines 42-53; r is the value of random.randint(1, 3)
ComputerInput(strategy, stack, r) ==
    IF strategy = "RANDOM" THEN Min(r, stack) ELSE SmartInput(stack)

\* validate_outcome: the game is over
ValidateOutcome(stack) == stack <= 0

\* draw, then validate_outcome and the change of turn of play (lines 75-78
\* and 80-83); who is the branch of play that ran
AfterDraw(g, who, n) ==
    LET stack == g.stack - n
    IN [g EXCEPT !.stack = stack,
                 !.last = [drawer |-> who, amount |-> n, before |-> g.stack],
                 !.prev_drawer = g.last.drawer,
                 !.message = "drew",
                 !.loser = IF ValidateOutcome(stack) THEN Some(g.turn)
                           ELSE None,
                 !.turn = IF ValidateOutcome(stack) THEN g.turn
                          ELSE Other(who)]

GameInit ==
    /\ game \in { NewGame(stack, user_first, strategy) :
                     stack \in MinStack..MaxStack, user_first \in BOOLEAN,
                     strategy \in {"RANDOM", "SMART"} }
    /\ pc = "play"
    /\ SessionIdle
    /\ dist = None /\ gen = None /\ acct = None /\ room = None

GameFrame == UNCHANGED <<p05_vars, dist, gen, acct, room>>

\* play, lines 74-78, with an input user_draw accepts
UserDraw ==
    /\ pc = "play"
    /\ game.stack > 0
    /\ game.turn = "user"
    /\ \E text \in Texts :
         /\ ParseInt(text) # None
         /\ UserAccepts(ParseInt(text)[1], game.stack)
         /\ game' = AfterDraw(game, "user", ParseInt(text)[1])
    /\ pc' = IF ValidateOutcome(game'.stack) THEN "game_over" ELSE "play"
    /\ GameFrame

\* user_draw, lines 36-39: the input is refused and asked for again
UserRejected ==
    /\ pc = "play"
    /\ game.stack > 0
    /\ game.turn = "user"
    /\ \E text \in Texts :
         \/ /\ ParseInt(text) = None
            /\ game' = [game EXCEPT !.message = "not a number"]
         \/ /\ ParseInt(text) # None
            /\ ~UserAccepts(ParseInt(text)[1], game.stack)
            /\ game' = [game EXCEPT !.message = "out of range"]
    /\ UNCHANGED pc
    /\ GameFrame

\* play, lines 79-83
ComputerDraw ==
    /\ pc = "play"
    /\ game.stack > 0
    /\ game.turn = "computer"
    /\ \E r \in 1..3 :
         game' = [AfterDraw(game, "computer",
                            ComputerInput(game.strategy, game.stack, r))
                    EXCEPT !.ahead = game.ahead
                                     \/ (game.strategy = "SMART"
                                           /\ game.stack % 4 # 1)]
    /\ pc' = IF ValidateOutcome(game'.stack) THEN "game_over" ELSE "play"
    /\ GameFrame

GameNext ==
    \/ UserDraw
    \/ UserRejected
    \/ ComputerDraw

SpecGame == GameInit /\ [][GameNext]_vars

\* the computer draws as soon as it is its turn, and the user enters an
\* accepted number in the end
SpecGameFair == SpecGame /\ WF_vars(ComputerDraw) /\ WF_vars(UserDraw)

(***************************************************************************)
(* P01/classroom_objects.py: documents, tables and persons                 *)
(***************************************************************************)

Teachers == {"Mr. Roth"}
Students == {"Student 0", "Student 1"}
Persons == Teachers \cup Students
Documents == {"Document 0", "Document 1", "Document 2"}
Tables == {1, 2}

\* list.count(x)
Count(list, x) == Cardinality({ i \in 1..Len(list) : list[i] = x })

\* mutant of Remove: the list is left as it is
Remove_Nothing(list, x) == list

\* list.remove(x): the list without the first x
Remove(list, x) ==
    LET first == CHOOSE i \in 1..Len(list) :
                     list[i] = x /\ \A j \in 1..(i - 1) : list[j] # x
    IN SubSeq(list, 1, first - 1) \o SubSeq(list, first + 1, Len(list))

\* Document.__init__, Table.__init__, ClassPerson.__init__ and
\* Student.__init__: nothing is linked
RoomInit ==
    /\ room = [owner |-> [d \in Documents |-> None],
               documents |-> [p \in Persons |-> <<>>],
               table |-> [s \in Students |-> None],
               occupants |-> [t \in Tables |-> <<>>],
               reassigned |-> FALSE, reseated |-> FALSE]
    /\ pc = "room"
    /\ SessionIdle
    /\ dist = None /\ gen = None /\ acct = None /\ game = None

RoomFrame == UNCHANGED <<p05_vars, dist, gen, acct, game>>

\* ClassPerson.assign_document; list.remove raises ValueError when the
\* document is not in the list
AssignDocument ==
    /\ pc = "room"
    /\ \E self \in Persons, document \in Documents :
         LET owner == room.owner[document]
         IN IF owner # None /\ Count(room.documents[owner[1]], document) = 0
            THEN pc' = "room_crashed" /\ UNCHANGED room
            ELSE LET removed ==
                         IF owner # None
                         THEN [room.documents EXCEPT
                                 ![owner[1]] = Remove(@, document)]
                         ELSE room.documents
                 IN /\ room' = [room EXCEPT
                          !.owner[document] = Some(self),
                          !.documents = [removed EXCEPT
                                           ![self] = Append(@, document)],
                          !.reassigned = @ \/ (owner # None
                                                 /\ owner # Some(self))]
                    /\ UNCHANGED pc
    /\ RoomFrame

\* Student.sit
Sit ==
    /\ pc = "room"
    /\ \E self \in Students, table \in Tables :
         LET old == room.table[self]
         IN IF old # None /\ Count(room.occupants[old[1]], self) = 0
            THEN pc' = "room_crashed" /\ UNCHANGED room
            ELSE LET removed ==
                         IF old # None
                         THEN [room.occupants EXCEPT
                                 ![old[1]] = Remove(@, self)]
                         ELSE room.occupants
                 IN /\ room' = [room EXCEPT
                          !.table[self] = Some(table),
                          !.occupants = [removed EXCEPT
                                           ![table] = Append(@, self)],
                          !.reseated = @ \/ (old # None
                                               /\ old # Some(table))]
                    /\ UNCHANGED pc
    /\ RoomFrame

RoomNext ==
    \/ AssignDocument
    \/ Sit

SpecRoom == RoomInit /\ [][RoomNext]_vars

----------------------------------------------------------------------------
(* Properties of the routing session *)

Indices(q) == 1..Len(q)

\* the option blocks printed so far, in print order
OptionLines == SelectSeq(out, LAMBDA l : l.kind = "option")

\* the phases of the API calls issued so far
Issued(phase) == \E i \in Indices(calls) : calls[i].phase = phase

\* a finished call of that phase ended that way
Returned(phase, kind) ==
    \E i \in Indices(returns) :
        returns[i].phase = phase /\ returns[i].kind = kind

\* how often the corridor search asked for a connection to that station
ProbeCount(name) ==
    Cardinality({ i \in Indices(calls) :
                    calls[i].phase = "probe" /\ calls[i].to = name })

\* the direct query returned absent: the corridor search was entered
CorridorEntered == Returned("direct", "absent")

\* the corridor search has returned its list
CorridorReturned == CorridorEntered /\ pc \in {"present", "done"}

\* the corridor search is over: it returned, or an exception left it
CorridorOver ==
    \/ CorridorReturned
    \/ CorridorEntered /\ pc = "crashed"

\* the exceptions of a timeout, an exhausted retry budget, an error status
NetworkErrors == {"ConnectionError", "RetryError", "HTTPError"}

\* execute ended by a network failure raised by a call of those phases
NetworkFailureAt(phases) ==
    \E i \in Indices(exc) :
        exc[i].at \in phases /\ exc[i].error \in NetworkErrors

\* C1: at every terminal state of execute the output holds at least one
\* rendered connection option or an explicit not-found / error message;
\* no run ends with silent empty output.
C1_TerminalHasResultOrMessage ==
    Terminal =>
        \E i \in Indices(out) : out[i].kind \in {"option", "error", "notfound"}

PhaseRank(phase) ==
    CASE phase = "origin" -> 1
      [] phase = "destination" -> 2
      [] phase = "direct" -> 3
      [] OTHER -> 4

\* C2: the session steps happen in the order origin resolution, destination
\* resolution, direct query, corridor search (only after the direct query
\* returned absent), presentation: the destination is never looked up
\* before the origin is resolved, the direct query never before both
\* endpoints are resolved, a corridor probe never unless the direct query
\* returned absent, and nothing is presented while a query is outstanding.
C2_SessionOrder ==
    /\ \A i, j \in Indices(calls) :
          i < j => /\ PhaseRank(calls[i].phase) <= PhaseRank(calls[j].phase)
                   /\ calls[i].phase = calls[j].phase => calls[i].phase = "probe"
    /\ Issued("destination") => Returned("origin", "value") /\ origin_obj # None
    /\ geo_calls # <<>> => Returned("destination", "absent")
    /\ Issued("direct") =>
          /\ origin_obj # None /\ destination_obj # None
          /\ Returned("origin", "value")
          /\ Returned("destination", "value") \/ geo_location # None
    /\ Issued("probe") =>
          /\ Returned("direct", "absent")
          /\ direct_connection = None
          /\ ~is_direct
    /\ OptionLines # <<>> =>
          /\ pc \in {"present", "done"}
          /\ Len(returns) = Len(calls)
          /\ Returned("direct", "value") \/ Returned("probe", "value")

\* C2 witness: a session that went through the corridor search and printed
\* an intermediate option after a geocoded destination
C2_Witness ==
    /\ pc = "done"
    /\ Issued("probe")
    /\ geo_location # None
    /\ OptionLines # <<>>

\* a cached station lies in the corridor of the resolved endpoints
Included(c) == InCorridor(origin_obj[1], destination_obj[1], c)

\* C3: during one corridor search the API Client is queried exactly once
\* for every cached station whose deviation is at most 20 degrees, and
\* never for any other station; no station is probed twice.
C3_ProbedExactlyTheCorridor ==
    CorridorOver =>
        \A i \in Indices(covered_stations) :
            ProbeCount(covered_stations[i].name)
                = IF Included(covered_stations[i]) THEN 1 ELSE 0

\* the cached stations whose probe returned a connection, in cache order
Hits ==
    SelectSeq(covered_stations,
              LAMBDA c : /\ Included(c)
                         /\ \E i \in Indices(returns) :
                               returns[i] = [phase |-> "probe", to |-> c.name,
                                             kind |-> "value"])

\* C4: the list the corridor search returns holds exactly one connection for
\* each included station whose probe returned one, in the order of the
\* cached station set, and the presenter numbers and prints the options in
\* that order.
C4_CandidateOrderKept ==
    CorridorReturned =>
        /\ Len(connections_to_display) = Len(Hits)
        /\ \A k \in Indices(Hits) :
              connections_to_display[k].to = ApiStation(Hits[k])
        /\ Len(OptionLines) <= Len(Hits)
        /\ \A k \in Indices(OptionLines) :
              /\ OptionLines[k].index = k
              /\ OptionLines[k].via = Some(ApiStation(Hits[k]))
        /\ pc = "done" => Len(OptionLines) = Len(Hits)

\* C4 witness: two intermediate options were found and printed, the second
\* cached before a station that was left out or gave nothing
C4_Witness ==
    /\ CorridorReturned
    /\ pc = "done"
    /\ Len(OptionLines) = 2
    /\ Len(covered_stations) = 3

\* C5: a probe that ends in a network failure is skipped: every later
\* included station is still probed, and the connections found for the
\* other stations are returned and presented.
C5_ProbeFailureIsolated ==
    (Terminal /\ NetworkFailureAt({"probe"})) =>
        /\ \A i \in Indices(connection_stations) :
              ProbeCount(connection_stations[i].name) = 1
        /\ Len(OptionLines) = Len(Hits)

\* C6: an origin lookup, destination lookup or direct query that times out,
\* exhausts its retries or gets an error status never ends execute by an
\* unhandled exception.
C6_ApiFailureNeverCrashes ==
    ~NetworkFailureAt({"origin", "destination", "direct"})

\* C9: when get_location returns absent for the destination and the
\* geocoder returns coordinates, the destination becomes a Location with the
\* sentinel id, the entered name and the geocoded coordinates; the direct
\* query is issued, the corridor is computed from that Location, and it is
\* never probed nor offered as a via-station: every probe targets a station
\* of the cache, by a name that is not the destination's.
C9_GeocodedDestination ==
    geo_location # None =>
        /\ Returned("destination", "absent")
        /\ destination_obj =
              Some(Loc(SentinelId, destination_name, geo_location[1]))
        /\ Issued("direct")
        /\ CorridorEntered =>
              connection_stations =
                  SelectSeq(covered_stations,
                      LAMBDA c : AngularDeviation(origin_obj[1],
                                    [coordinate |-> geo_location[1]], c)
                                 <= CorridorThreshold)
        /\ \A i \in Indices(calls) :
              calls[i].phase = "probe" =>
                  /\ calls[i].to # destination_name
                  /\ \E k \in Indices(covered_stations) :
                        covered_stations[k].name = calls[i].to
        /\ \A k \in Indices(OptionLines) :
              ~OptionLines[k].direct =>
                  /\ OptionLines[k].via # destination_obj
                  /\ OptionLines[k].via[1].name # destination_name

\* C9 witness: a geocoded destination, a corridor search, and an
\* intermediate option printed
C9_Witness ==
    /\ geo_location # None
    /\ pc = "done"
    /\ \E k \in Indices(OptionLines) : ~OptionLines[k].direct

\* C10 as claimed: the origin is resolved like the destination: when its
\* get_location returns absent and a geocoder is there, the geocoder's
\* forward lookup is called for the origin.
C10_OriginFallsBackToGeocoder ==
    (Returned("origin", "absent") /\ geolocator) =>
        \E i \in Indices(geo_calls) : geo_calls[i] = origin_name

\* C10 as amended: the geocoder fallback resolves the destination only.
\* The origin is resolved by get_location alone: when it returns absent the
\* session prints the origin-not-found error and ends, with no geocoder
\* call, no destination lookup and no direct query.  The destination is
\* looked up first and geocoded only after its lookup returned absent.
C10_OnlyDestinationFallsBack ==
    /\ \A i \in Indices(geo_calls) :
          /\ geo_calls[i] = destination_name
          /\ Returned("destination", "absent")
    /\ (Returned("destination", "absent") /\ geolocator) =>
          geo_calls = << destination_name >>
    /\ geo_location # None => destination_obj[1].id = SentinelId
    /\ Returned("origin", "absent") =>
          /\ pc = "done"
          /\ origin_obj = None
          /\ geo_calls = <<>>
          /\ Len(calls) = 1
          /\ out = << Msg("error", "origin_not_found") >>

\* C10 witness: the origin is unknown to the transit API, a geocoder is
\* there, and the session has ended
C10_Witness ==
    /\ Returned("origin", "absent")
    /\ geolocator
    /\ pc = "done"

\* the destination is not in the transit API and the geocoder gave no
\* coordinates: it was never built, or its forward lookup found nothing,
\* timed out or raised
GeocoderFailed ==
    /\ Returned("destination", "absent")
    /\ \/ ~geolocator
       \/ \E i \in Indices(geo_returns) : geo_returns[i] # "found"

\* C11: when the destination is absent from the transit API and the
\* geocoder fails (returns nothing, times out, raises a service error, or
\* was never initialized), the session prints the matching error message
\* as its last line and stops: no direct query, no corridor probe, no
\* option block, and no exception leaves execute.
C11_GeocoderFailureEndsSession ==
    GeocoderFailed =>
        /\ pc = "done"
        /\ exc = None
        /\ destination_obj = None
        /\ ~Issued("direct")
        /\ ~Issued("probe")
        /\ OptionLines = <<>>
        /\ out[Len(out)] =
              Msg("error", IF ~geolocator THEN "geolocator_not_initialized"
                           ELSE GeocodeMessage(geo_returns[1]))

\* C11 witness: the geocoder timed out on a destination unknown to the
\* transit API, and the session has ended
C11_Witness ==
    /\ Returned("destination", "absent")
    /\ geo_returns = << "timeout" >>
    /\ Terminal

\* C12: a Location with the sentinel id is never the target of a corridor
\* probe and never the via-station of a printed intermediate option,
\* whatever records the reachable-station file holds.
C12_SentinelNeverViaStation ==
    /\ \A i \in Indices(calls) :
          calls[i].phase = "probe" =>
              \A k \in Indices(covered_stations) :
                  covered_stations[k].name = calls[i].to =>
                      covered_stations[k].id # SentinelId
    /\ \A k \in Indices(OptionLines) :
          ~OptionLines[k].direct => OptionLines[k].via[1].id # SentinelId

\* the records of the station file that carry a coordinate, in file order
WithCoordinate ==
    SelectSeq(stations_file.records, LAMBDA r : r.coordinate # None)

\* C13: a record of the station file that lacks a coordinate is skipped
\* (never probed, no crash) while every other record is still loaded,
\* filtered and probed as usual.
C13_CoordinatelessRecordSkipped ==
    stations_file.kind = "list" =>
        /\ Len(covered_stations) = Len(WithCoordinate)
        /\ \A i \in Indices(WithCoordinate) :
              covered_stations[i] = ParseLocation(WithCoordinate[i])[1]
        /\ \A i \in Indices(calls), k \in Indices(stations_file.records) :
              (calls[i].phase = "probe"
                  /\ calls[i].to = stations_file.records[k].name) =>
                  stations_file.records[k].coordinate # None

\* the station file is a well-formed list without records
EmptyCache == stations_file = [kind |-> "list", records |-> <<>>]

\* C14 as claimed: with an empty reachable-station cache the session still
\* resolves the endpoints and searches; when there is no direct connection
\* the corridor search issues no probe and the session ends with the
\* "no suitable connection found" message.
C14_EmptyCacheStillSearches ==
    (EmptyCache /\ Terminal) =>
        /\ Issued("origin")
        /\ Returned("direct", "absent") =>
              /\ ~Issued("probe")
              /\ out[Len(out)] = Msg("notfound", "no_suitable_connection")

\* C14 as amended: with an empty reachable-station cache the session
\* prints the "cannot proceed without reachable station data" error and
\* ends before the prompts: no endpoint is resolved, no query, probe or
\* geocoder call is issued, and neither an option block nor the "no
\* suitable connection found" message is printed.
C14_EmptyCacheEndsSession ==
    EmptyCache =>
        /\ covered_stations = <<>>
        /\ pc \in {"start", "done"}
        /\ origin_name = "" /\ destination_name = ""
        /\ origin_obj = None /\ destination_obj = None
        /\ calls = <<>> /\ geo_calls = <<>>
        /\ out = IF pc = "done" THEN << Msg("error", "no_station_data") >>
                 ELSE <<>>

\* C14 witness: execute has run on an empty cache
C14_Witness == EmptyCache /\ pc = "done"

\* the station file is missing or malformed: not found, not JSON, not a
\* list, or a list with a record that does not parse
FileUnusable ==
    \/ stations_file.kind \in {"missing", "invalid_json", "not_list"}
    \/ \E i \in Indices(stations_file.records) :
          ParseLocation(stations_file.records[i]) = None

\* C15: when the reachable-station file is missing or malformed, no
\* station is loaded and the session aborts with the "cannot proceed
\* without reachable station data" error before any prompt, API call,
\* geocoder call or option block: that error is all it prints.
C15_UnusableCacheAborts ==
    FileUnusable =>
        /\ covered_stations = <<>>
        /\ pc # "start" =>
              /\ pc = "done"
              /\ exc = None
              /\ out = << Msg("error", "no_station_data") >>
        /\ pc = "start" => out = <<>>
        /\ origin_name = "" /\ destination_name = ""
        /\ calls = <<>> /\ returns = <<>> /\ geo_calls = <<>>
        /\ OptionLines = <<>>

\* C15 witness: execute has run on a file whose second record does not
\* parse while its first one does
C15_Witness ==
    /\ pc = "done"
    /\ Len(stations_file.records) = 2
    /\ ParseLocation(stations_file.records[1]) # None
    /\ ParseLocation(stations_file.records[2]) = None

\* C16: when the direct query returns a connection, the corridor search is
\* not run and exactly one option block is printed: numbered 1, marked
\* direct, with the connection's from and to names, departure, arrival and
\* duration, the platform or "N/A" when the platform is empty, no coverage
\* line and no provider line; no intermediate block is printed.
C16_DirectOptionBlock ==
    Returned("direct", "value") =>
        /\ is_direct
        /\ ~Issued("probe")
        /\ connections_to_display = << direct_connection[1] >>
        /\ Len(OptionLines) = (IF pc = "done" THEN 1 ELSE 0)
        /\ \A k \in Indices(OptionLines) :
              LET block == OptionLines[k]
                  conn == direct_connection[1]
              IN /\ block.direct
                 /\ block.index = 1
                 /\ block.travel = << origin_obj[1].name, destination_name >>
                 /\ block.departure = conn.departure
                 /\ block.arrival = conn.arrival
                 /\ block.duration = conn.duration
                 /\ block.platform =
                       (IF conn.platform = "" THEN "N/A" ELSE conn.platform)
                 /\ ~block.coverage
                 /\ block.provider = ""

\* C16 witness: a direct connection without a platform was printed in a
\* session that could have looked a provider up
C16_Witness ==
    /\ Returned("direct", "value")
    /\ pc = "done"
    /\ geolocator /\ local_providers # {}
    /\ direct_connection[1].platform = ""
    /\ Len(OptionLines) = 1

\* the printed option block k is an intermediate one with its leg: from
\* the origin to the via-station, with the times of that connection
IntermediateLeg(k) ==
    LET block == OptionLines[k]
        conn == connections_to_display[k]
    IN /\ ~block.direct
       /\ block.via = Some(conn.to)
       /\ block.travel = << origin_obj[1].name, conn.to.name >>
       /\ block.departure = conn.departure
       /\ block.arrival = conn.arrival
       /\ block.duration = conn.duration

\* the printed option block k has exactly one of the two provider lines,
\* and the last block printed names the provider exactly when the reverse
\* geocoder was asked and answered a country code of the provider table
ProviderLine(k) ==
    /\ OptionLines[k].provider \in {"named", "lookup_failed"}
    /\ k = Len(OptionLines) =>
          (OptionLines[k].provider = "named"
              <=> /\ geolocator
                  /\ reverse_answer \in local_providers)

\* distance(origin, destination) of the session
TotalDistance == CalculateDistance(origin_obj, destination_obj)

LookupAbsent ==
    \/ ~geolocator
    \/ local_providers = {}
    \/ reverse_answer \in {"failed", "no_address", "no_country_code"}
    \/ reverse_answer \notin local_providers

\* C18: the provider lookup never raises into the session: no exception
\* leaves the presentation, a lookup that has nothing to return gives the
\* "provider lookup failed" line, and every option of the list is still
\* printed.
C18_ProviderLookupNeverRaises ==
    /\ \A i \in Indices(exc) : exc[i].at # "present"
    /\ (CorridorReturned /\ OptionLines # <<>> /\ LookupAbsent) =>
          OptionLines[Len(OptionLines)].provider = "lookup_failed"
    /\ pc = "present" =>
          Len(OptionLines) = display_idx - 1
    /\ (pc = "done" /\ CorridorReturned) =>
          Len(OptionLines) = Len(connections_to_display)

\* C18 witness: the provider lookup returned nothing for the first of two
\* intermediate options, and the second was still printed, with its
\* provider named
C18_Witness ==
    /\ CorridorReturned
    /\ pc = "done"
    /\ Len(OptionLines) = 2
    /\ OptionLines[1].provider = "lookup_failed"
    /\ OptionLines[2].provider = "named"

\* distance(origin, via-station) of the printed option block k
CoveredDistance(k) == CalculateDistance(origin_obj, OptionLines[k].via)

\* C19: for every printed option, direct or intermediate, the coverage
\* percentage is 0 when the distance from origin to destination is 0, and
\* covered/total*100 when it is positive; the division is only made with
\* a positive total.
C19_CoveragePercentage ==
    /\ TotalDistance >= 0
    /\ \A k \in Indices(OptionLines) :
          /\ TotalDistance = 0 => OptionLines[k].percentage = 0
          /\ TotalDistance > 0 =>
                OptionLines[k].percentage * TotalDistance
                    = CoveredDistance(k) * 100

\* C19 witness: an intermediate option over a positive covered distance
\* was printed in a session whose total distance is 0
C19_Witness ==
    /\ origin_obj # None /\ destination_obj # None
    /\ TotalDistance = 0
    /\ \E k \in Indices(OptionLines) :
          /\ ~OptionLines[k].direct
          /\ CoveredDistance(k) > 0
          /\ OptionLines[k].percentage = 0

\* C22: the reachable-station set and the provider table are loaded when
\* the Interface is constructed and never mutated afterwards: no step of
\* execute, the corridor search, the provider lookup or the presenter
\* changes covered_stations or local_providers.
C22_CacheNeverMutated ==
    [][/\ covered_stations' = covered_stations
       /\ local_providers' = local_providers]_vars

\* C22 witness: a session that filtered out a cached station, probed the
\* others, looked a provider up and printed it has ended, the station set
\* still being what the file parses to
C22_Witness ==
    /\ pc = "done"
    /\ CorridorReturned
    /\ Len(connection_stations) < Len(covered_stations)
    /\ reverse_answer = "DE"
    /\ OptionLines # <<>>
    /\ covered_stations = ReadCoveredStations(stations_file)

\* origin and destination are resolved to the same coordinate
SameCoordinate ==
    /\ origin_obj # None /\ destination_obj # None
    /\ destination_obj[1].coordinate.km = 0

\* C23: when origin and destination resolve to the same coordinate and
\* there is no direct connection, no corridor candidate is selected and
\* probed on the basis of the bearing of that degenerate pair.
C23_DegenerateBearingHandled ==
    (SameCoordinate /\ CorridorEntered) =>
        /\ connection_stations = <<>>
        /\ ~Issued("probe")

----------------------------------------------------------------------------
(* Properties of the API Client *)

\* the finished call's answers before the last one, and the last one
Transients(c) == SubSeq(c.answers, 1, Len(c.answers) - 1)
FinalAnswer(c) == c.answers[Len(c.answers)]

\* C7: a call that receives k transient answers and then a 200 with a
\* record, k at most the retry budget, returns the parsed record; a call
\* never retries more often than the budget, and a transient failure is
\* raised only once the budget is spent.
C7_RetryWithinBudget ==
    /\ retries <= Retries
    /\ Len(attempts) = retries
    /\ last.op # "" =>
          /\ Len(Transients(last)) <= Retries
          /\ \A i \in Indices(Transients(last)) : IsTransient(last.answers[i])
          /\ FinalAnswer(last) = "200_data" =>
                /\ last.kind = "value"
                /\ last.val = Some(ApiValue(last.op, calls[Len(calls)].to))
          /\ (last.kind = "raised" /\ IsTransient(FinalAnswer(last))) =>
                Len(Transients(last)) = Retries

\* C7 witness: as many 5xx as the budget allows, then a 200: the
\* connection is returned
C7_Witness ==
    /\ last.op = "get_next_connection"
    /\ last.kind = "value"
    /\ Len(last.answers) = Retries + 1
    /\ \A i \in Indices(Transients(last)) : last.answers[i] = "5xx"

\* C8: a call returns absent exactly when its final answer is a 200 with a
\* well-formed body whose list is empty or missing; a spent retry budget, a
\* 4xx and an unparsable body always raise.
C8_AbsentOnlyOnEmptyResult ==
    last.op # "" =>
        /\ last.kind = "absent" <=>
              FinalAnswer(last) \in {"200_empty", "200_missing"}
        /\ FinalAnswer(last) \in {"4xx", "200_unparsable", "5xx", "timeout"} =>
              /\ last.kind = "raised"
              /\ last.val = None

\* C8 witness: a call that was retried and then got a 200 with an empty
\* list returned absent
C8_Witness ==
    /\ last.kind = "absent"
    /\ Len(last.answers) > 1
    /\ FinalAnswer(last) = "200_empty"

----------------------------------------------------------------------------
(* Properties of the Geometry Engine *)

\* C20: for all bearings in [0, 360) the angular deviation lies in
\* [0, 180]; it is 0 when the candidate is the destination itself, wherever
\* the destination lies; and a candidate d degrees clockwise of the direct
\* bearing and one d degrees counter-clockwise get the same deviation, d,
\* also when one of them lies across the 0/360 wrap.
C20_AngularDeviation ==
    geom.results # None =>
        LET r == geom.results[1]
        IN /\ r.b_od \in Bearings /\ r.b_cw \in Bearings /\ r.b_ccw \in Bearings
           /\ r.self = 0
           /\ r.cw \in 0..180
           /\ r.ccw \in 0..180
           /\ r.cw = r.ccw
           /\ r.cw = geom.d

\* C20 witness: a direct bearing of 350 degrees with candidates 20 degrees
\* to either side: one of them lies across the wrap, at 10 degrees
C20_Witness ==
    /\ geom.results # None
    /\ geom.results[1].b_od = 350
    /\ geom.results[1].b_cw = 10
    /\ geom.results[1].b_ccw = 330
    /\ geom.results[1].cw = 20

\* the argument is None or a Location without a coordinate
Absent(loc) == loc = None \/ loc[1].coordinate = None

\* C21: the distance operation returns 0 whenever either location or
\* either coordinate is absent, returns 0 for distance(A, A), and gives
\* the same value for (A, B) and (B, A).
C21_DistanceSymmetric ==
    (dist # None /\ dist.results # None) =>
        LET r == dist.results[1]
        IN /\ (Absent(dist.a) \/ Absent(dist.b)) => r.ab = 0 /\ r.ba = 0
           /\ r.aa = 0
           /\ r.ab = r.ba
           /\ r.ab >= 0

\* C21 witness: the distance of two Locations at different coordinates,
\* the first not at the grid's corner, was computed both ways
C21_Witness ==
    /\ dist # None /\ dist.results # None
    /\ ~Absent(dist.a) /\ ~Absent(dist.b)
    /\ dist.a[1].coordinate[1] = <<0, 1>>
    /\ dist.b[1].coordinate[1] = <<MaxGrid, 0>>
    /\ dist.results[1].ab > 0

----------------------------------------------------------------------------
(* Properties of the cache builder *)

\* the positions of the destination list whose probe returned a connection
GenHits ==
    SelectSeq([k \in 1..Len(gen.outcomes) |-> k],
              LAMBDA k : gen.outcomes[k] = "value")

\* C24: generate_reachable_list probes every destination of its list once,
\* in list order; a probe that raises, by a network error or any other,
\* is reported and skipped and the loop goes on; the list returned holds
\* exactly the arrival stations of the probes that returned a connection,
\* in list order.
C24_BuilderProbesEveryDestination ==
    gen # None =>
        /\ pc # "gen_crashed"
        /\ gen.probes = SubSeq(gen.destinations, 1, gen.i - 1)
        /\ Len(gen.outcomes) = gen.i - 1
        /\ pc = "gen_done" => gen.probes = gen.destinations
        /\ gen.reachable_stations =
              [j \in 1..Len(GenHits) |->
                  StationData(StationOf(gen.destinations[GenHits[j]]))]
        /\ Len(gen.reported) =
              Cardinality({ k \in 1..Len(gen.outcomes) :
                              gen.outcomes[k] = "raised" })

\* C24 witness: the builder returned after a probe that raised a
\* non-network error, followed by one that returned a connection
C24_Witness ==
    /\ gen # None
    /\ pc = "gen_done"
    /\ Len(gen.destinations) = 3
    /\ gen.outcomes = << "value", "raised", "value" >>
    /\ gen.reported[1].error = "ValueError"

----------------------------------------------------------------------------
(* Properties of the accounts *)

\* C25: the balance of a SavingAccount stays within the allowed range after
\* any sequence of calls: min_balance <= balance <= max_balance.
C25_SavingBalanceInRange ==
    (acct # None /\ acct.kind = "saving") =>
        /\ acct.min_balance <= acct.balance
        /\ acct.balance <= acct.max_balance

\* the last call was a deposit or withdraw
Transaction == acct.last.op \in {"deposit", "withdraw"}

\* C26: no operation changes the balance of a closed account: deposit and
\* withdraw raise ValueError, apply_monthly_interest does nothing; a deposit
\* or withdraw rejected on an open account (amount not positive, maximum
\* or minimum balance would be crossed) raises ValueError; a call that
\* raised left the balance as it was; on an open account, also a reopened
\* one, a deposit within the range is accepted.
C26_RejectedCallKeepsBalance ==
    acct # None =>
        /\ acct.last.error # "" => acct.balance = acct.last.before
        /\ (~acct.opened /\ Transaction) => acct.last.error = "closed"
        /\ (~acct.opened /\ acct.last.op = "apply_monthly_interest") =>
              acct.balance = acct.last.before
        /\ (Transaction /\ acct.last.amount <= 0) => acct.last.error # ""
        /\ (acct.last.op = "deposit"
                /\ acct.last.before + acct.last.amount > acct.max_balance) =>
              acct.last.error # ""
        /\ (acct.last.op = "withdraw"
                /\ acct.last.before - acct.last.amount < acct.min_balance) =>
              acct.last.error # ""
        /\ (acct.opened /\ acct.last.op = "deposit" /\ acct.last.amount > 0
                /\ acct.last.before + acct.last.amount <= acct.max_balance) =>
              /\ acct.last.error = ""
              /\ acct.balance = acct.last.before + acct.last.amount

\* C26 witness: a YouthAccount was closed, a call on it raised, it was
\* opened again, and a deposit was accepted
C26_Witness ==
    /\ acct # None
    /\ acct.kind = "youth"
    /\ acct.reopened
    /\ acct.last.op = "deposit"
    /\ acct.last.error = ""
    /\ acct.balance > 0
    /\ acct.steps = 4

\* C27: for a YouthAccount withdraw_this_month never exceeds the monthly
\* limit, and neither does the sum of the successful withdrawals of one
\* calendar month; once a withdrawal has got past the validation,
\* withdraw_this_month is the sum withdrawn in the current calendar month
\* (so the first attempt in a later month starts from 0); a withdrawal
\* is rejected for the limit only when that sum plus the amount exceeds
\* it, and a rejected withdrawal changes neither balance nor sum.
C27_MonthlyWithdrawLimit ==
    (acct # None /\ acct.kind = "youth") =>
        /\ acct.withdraw_this_month <= acct.monthly_withdraw_limit
        /\ acct.month_sum <= acct.monthly_withdraw_limit
        /\ (acct.last.op = "withdraw"
                /\ acct.last.error \in {"", "limit", "min_balance"}) =>
              acct.withdraw_this_month = acct.month_sum
        /\ (acct.last.op = "withdraw" /\ acct.last.error = "limit") =>
              /\ acct.balance = acct.last.before
              /\ acct.month_sum + acct.last.amount
                    > acct.monthly_withdraw_limit
        /\ (acct.last.op = "withdraw" /\ acct.last.error = "min_balance") =>
              acct.balance = acct.last.before

(***************************************************************************)
(* Properties of the match game                                            *)
(***************************************************************************)

GameSafe ==
    game # None =>
        /\ game.stack >= 0
        /\ game.last.drawer # "" =>
              /\ game.last.amount \in 1..3
              /\ game.last.amount <= game.last.before
              /\ game.stack = game.last.before - game.last.amount
              /\ game.last.drawer # game.prev_drawer
        /\ (pc = "play" /\ game.last.drawer # "") =>
              game.turn = Other(game.last.drawer)
        /\ pc = "game_over" =>
              /\ game.stack = 0
              /\ game.loser = Some(game.last.drawer)

\* C28: in MatchGame.play every draw removes 1 to 3 matches and never
\* more than the stack holds, so the stack is never negative; the players
\* draw in turn; and with a user who in the end enters valid numbers the
\* game ends with a stack of exactly 0 and declares as loser the player who
\* drew the last match.
C28_GameEndsAtZero ==
    /\ []GameSafe
    /\ <>[](pc = "game_over" /\ game.stack = 0
               /\ game.loser = Some(game.last.drawer))

\* C28 witness: a game of the RANDOM strategy is over; the computer drew
\* the last three matches, after a draw of the user, and lost
C28_Witness ==
    /\ pc = "game_over"
    /\ game.strategy = "RANDOM"
    /\ game.stack = 0
    /\ game.last = [drawer |-> "computer", amount |-> 3, before |-> 3]
    /\ game.prev_drawer = "user"
    /\ game.loser = Some("computer")

SmartSafe ==
    (game # None /\ game.strategy = "SMART") =>
        /\ (game.last.drawer = "computer" /\ game.last.before % 4 # 1) =>
              game.stack % 4 = 1
        /\ (game.ahead /\ pc = "play" /\ game.turn = "user") =>
              game.stack % 4 = 1
        /\ (game.ahead /\ pc = "game_over") => game.loser = Some("user")

\* C29: with Strategy.SMART, whenever the computer draws from a stack that
\* is not 1 modulo 4 it leaves a stack that is 1 modulo 4, and from then
\* on it is the user who draws the last match.
C29_SmartLeavesOneModFour ==
    /\ []SmartSafe
    /\ (game.ahead ~> (pc = "game_over" /\ game.loser = Some("user")))

\* C29 witness: the SMART computer drew from a stack that was not 1 modulo
\* 4, and the user has drawn the last match
C29_Witness ==
    /\ pc = "game_over"
    /\ game.strategy = "SMART"
    /\ game.ahead
    /\ game.last = [drawer |-> "user", amount |-> 1, before |-> 1]
    /\ game.loser = Some("user")

(***************************************************************************)
(* Properties of the classroom                                             *)
(***************************************************************************)

\* C30: after any sequence of assign_document and sit calls a document
\* with an owner is exactly once in that owner's documents and in no other
\* person's, also after a reassignment; a seated student is exactly once
\* among the occupants of the table they sit at and in no other table's.
C30_LinksConsistent ==
    room # None =>
        /\ pc = "room"
        /\ \A d \in Documents, p \in Persons :
              room.owner[d] # None =>
                Count(room.documents[p], d)
                  = IF room.owner[d] = Some(p) THEN 1 ELSE 0
        /\ \A s \in Students, t \in Tables :
              room.table[s] # None =>
                Count(room.occupants[t], s)
                  = IF room.table[s] = Some(t) THEN 1 ELSE 0

\* C30 witness: a document was handed from one person to another, a
\* student has changed tables, and both students sit at table 2 with
\* one document each
C30_Witness ==
    /\ room # None
    /\ room.reassigned
    /\ room.reseated
    /\ room.occupants[2] = <<"Student 1", "Student 0">>
    /\ room.documents["Student 0"] = <<"Document 0">>
    /\ room.documents["Student 1"] = <<"Document 1">>
    /\ room.documents["Mr. Roth"] = <<"Document 2">>

====
